---- MODULE Spec2Model ----
(***************************************************************************)
(* Cortexa: the documents page of the frontend (cortex_ui) and the HTTP    *)
(* API it talks to.                                                        *)
(*                                                                         *)
(* The page is a React component: its state is the useState cells, its     *)
(* operations are the event handlers.  A handler runs synchronously up to  *)
(* its first await; there the request is on the wire (pc "req"), the       *)
(* server handles it at some later moment (pc "resp") and the handler's    *)
(* continuation runs at some still later moment.  Handlers close over the  *)
(* state of the render in which they were invoked (useCallback deps), so   *)
(* a task carries the values it captured.                                  *)
(*                                                                         *)
(* The backend is not part of the sources; its endpoints are modelled      *)
(* from the specification (sections 4.4, 4.5 and 6).                       *)
(***************************************************************************)
EXTENDS Integers, Sequences, FiniteSets, TLC

\* ---------------------------------------------------------------- bounds
\* handler invocations that can be pending at once
MaxInFlight == 2
\* user operations (clicks and submits) in one run
MaxOps == 4
\* longest question typed, in characters
MaxQuestion == 52

\* ids the server can hand out within MaxOps operations
MaxDocs == 2 + MaxOps
MaxSessions == 2 + MaxOps

\* ------------------------------------------------------------- constants
\* the length up to which a question is its session's title
TitleLimit == 50
\* null for ids (selectedDoc, currentSessionId, session_id: undefined)
NoId == 0
\* the error cell holds null or a message
NoError == "null"

VARIABLES
    \* page state (useState cells of DocumentsPage)
    documents, selectedDoc, messages, error, isLoading,
    sessions, currentSessionId, isLoadingSessions,
    \* ChatInput.isLoading, FileUpload.isUploading
    chatIsLoading, isUploading,
    \* FileUpload.file, FileUpload.error
    file, uploadError,
    \* filename and chunks of the Document objects the page holds, by id
    docInfo,
    \* handler invocations in flight
    tasks,
    \* server state
    srvDocs, srvOrder, srvMsgs, sessDoc, nextDoc, nextSession,
    \* filename and chunk count of the server's Document records, by id
    srvInfo,
    \* number of user operations and of questions so far; the k-th question is k
    ops, askCount,
    \* the latest ask request, while nothing but handleAsk has changed the
    \* selected document or the current session since it was sent
    lastAsk,
    \* interpret page state (useState cells of InterpretPage) and its request
    input, context, tone, style, interpretation, interpretError, interpretIsLoading,
    interpretTask,
    \* a response handed to handleResponse, and what its caller gets
    response, settled,
    \* ChatInput.input, the message it passed to onSend, and the title handleAsk
    \* gave the session it created for that message
    chatInput, question, title

pageVars == <<documents, selectedDoc, messages, error, isLoading,
              sessions, currentSessionId, isLoadingSessions, chatIsLoading,
              isUploading>>
uploadVars == <<file, uploadError>>
infoVars == <<docInfo, srvInfo>>
srvVars == <<srvDocs, srvOrder, srvMsgs, sessDoc, nextDoc, nextSession>>
interpretVars == <<input, context, tone, style, interpretation, interpretError,
                   interpretIsLoading, interpretTask>>
apiVars == <<response, settled>>
\* what the documents page and its server calls leave alone
titleVars == <<chatInput, question, title>>
elsewhere == <<interpretVars, apiVars, titleVars>>
documentsVars == <<pageVars, uploadVars, infoVars, tasks, srvVars, ops, askCount, lastAsk>>
vars == <<documentsVars, interpretVars, apiVars, titleVars>>

Slots == 1..MaxInFlight

\* ------------------------------------------------------------- responses
\* a body without detail field: error.detail is undefined
Undefined == "undefined"

\* fetch's Response.ok
Ok(status) == status \in 200..299

NoResp == [ok |-> FALSE, status |-> 0, body |-> "none", detail |-> "", data |-> <<>>]

JsonOk(d) == [ok |-> TRUE, status |-> 200, body |-> "json", detail |-> "", data |-> d]

\* a 200 whose body is the rendered transcript, not JSON
Blob(d) == [ok |-> TRUE, status |-> 200, body |-> "blob", detail |-> "", data |-> d]

NoContent == [ok |-> TRUE, status |-> 204, body |-> "empty", detail |-> "", data |-> <<>>]

NotFound == [ok |-> FALSE, status |-> 404, body |-> "json", detail |-> "Not found", data |-> <<>>]

ServerError == [ok |-> FALSE, status |-> 500, body |-> "json", detail |-> "Internal error", data |-> <<>>]

\* an error body without a detail field
BadGateway == [ok |-> FALSE, status |-> 502, body |-> "json", detail |-> Undefined, data |-> <<>>]

Unsupported == [ok |-> FALSE, status |-> 400, body |-> "json", detail |-> "Unsupported file format", data |-> <<>>]

\* error.detail || fallback
DetailOr(detail, fallback) == IF detail \in {"", Undefined} THEN fallback ELSE detail

\* the promise resolved with data
Resolved(data) == [throws |-> FALSE, name |-> "none", status |-> 0, message |-> "", data |-> data]

\* the promise rejected with new ApiError(status, message)
ApiError(status, message) ==
    [throws |-> TRUE, name |-> "ApiError", status |-> status, message |-> message, data |-> <<>>]

\* the promise rejected by response.json() on a body that is not JSON
SyntaxError ==
    [throws |-> TRUE, name |-> "SyntaxError", status |-> 0,
     message |-> "Unexpected end of JSON input", data |-> <<>>]

\* as HandleResponse, but without the catch on the error body's json()
HandleResponseNoCatch(r) ==
    IF ~r.ok
    THEN IF r.body = "json"
         THEN ApiError(r.status, DetailOr(r.detail, "Request failed"))
         ELSE SyntaxError
    ELSE IF r.body = "json" THEN Resolved(r.data) ELSE SyntaxError

\* api.ts handleResponse: what the awaiting caller sees
HandleResponse(r) ==
    IF ~r.ok
    THEN ApiError(r.status,
                  DetailOr(IF r.body = "json" THEN r.detail ELSE "Unknown error",
                           "Request failed"))
    ELSE IF r.body = "json" THEN Resolved(r.data) ELSE SyntaxError

\* as ExportResponse, but going through handleResponse like the other wrappers
ExportResponseThroughHandler(r) == HandleResponse(r)

\* api.ts exportSession: checks response.ok itself and reads a blob
ExportResponse(r) ==
    IF ~r.ok
    THEN ApiError(r.status,
                  DetailOr(IF r.body = "json" THEN r.detail ELSE "Unknown error",
                           "Export failed"))
    ELSE Resolved(r.data)

\* ----------------------------------------------------------------- files
\* no file chosen
NoFile == [stem |-> "", ext |-> ""]

\* what the user has at hand to choose or drop
Files == {[stem |-> "notes", ext |-> ".pdf"], [stem |-> "setup", ext |-> ".exe"]}

\* FileUpload's accept attribute: what the file input's picker offers
Accept == {".pdf", ".txt", ".md"}

\* the extensions the Document Registry takes
Supported == {".pdf", ".txt", ".md"}

\* a Document's filename and chunk count; none for an id not in use
NoInfo == [filename |-> NoFile, chunks |-> 0]

\* the chunk counts an upload can result in
Chunks == {1, 2}

\* the formats of the session list's export menu
ExportFormats == {"md", "pdf"}

\* ----------------------------------------------------------------- tasks
\* doc, sid, docSessions: the handler's arguments and locals; sel, cur: the
\* selectedDoc and currentSessionId its closure captured; q: the question;
\* before: the messages on screen when the question was submitted
Idle == [kind |-> "idle", pc |-> "none", doc |-> NoId, sid |-> NoId, docSessions |-> <<>>,
         sel |-> NoId, cur |-> NoId, q |-> 0, before |-> <<>>, stale |-> FALSE,
         file |-> NoFile, fmt |-> "none", resp |-> NoResp]

Task(kind, doc, sid) == [Idle EXCEPT !.kind = kind, !.pc = "req1", !.doc = doc, !.sid = sid]

IsFree(i) == tasks[i].kind = "idle"

\* a new invocation takes the lowest free slot
FreeSlot(i) == IsFree(i) /\ \A j \in Slots : j < i => ~IsFree(j)

Awaits(i, kind, pc) == tasks[i].kind = kind /\ tasks[i].pc = pc

\* ------------------------------------------------------------- sequences
Contains(s, x) == \E k \in 1..Len(s) : s[k] = x

Remove(s, x) == SelectSeq(s, LAMBDA y : y # x)

UserMsg(q) == [role |-> "user", content |-> q]

\* an answer is named by the question it answers
AssistantMsg(q) == [role |-> "assistant", content |-> q]

RECURSIVE Ascending(_)
Ascending(S) ==
    IF S = {} THEN <<>>
    ELSE LET m == CHOOSE x \in S : \A y \in S : x <= y
         IN <<m>> \o Ascending(S \ {m})

\* no previous ask request to compare with
NoAsk == [doc |-> NoId, sid |-> NoId]

\* ----------------------------------------------------------------- texts
\* a text is a sequence of characters; " " is white space
Texts == {<<>>, <<" ">>, <<"a">>, <<" ", "a", " ">>}

RECURSIVE TrimStart(_)
TrimStart(s) == IF s # <<>> /\ Head(s) = " " THEN TrimStart(Tail(s)) ELSE s

RECURSIVE TrimEnd(_)
TrimEnd(s) == IF s # <<>> /\ s[Len(s)] = " " THEN TrimEnd(SubSeq(s, 1, Len(s) - 1)) ELSE s

\* String.prototype.trim
Trim(s) == TrimEnd(TrimStart(s))

\* string | null
Null == [null |-> TRUE, text |-> <<>>]

Some(s) == [null |-> FALSE, text |-> s]

\* context.trim() || null
TrimOrNull(s) == IF Trim(s) = <<>> THEN Null ELSE Some(Trim(s))

\* what is typed into the chat input: up to MaxQuestion letters, with or
\* without white space around them
Letters(n) == [k \in 1..n |-> "a"]

QuestionInputs ==
    {l \o Letters(n) \o r : l \in {<<>>, <<" ">>}, r \in {<<>>, <<" ">>}, n \in 0..MaxQuestion}

Ellipsis == <<".", ".", ".">>

\* as SessionTitle, but cutting without the three dots
SessionTitleCut(q) == SubSeq(q, 1, IF Len(q) > TitleLimit THEN TitleLimit ELSE Len(q))

\* question.slice(0, 50) + (question.length > 50 ? '...' : '')
SessionTitle(q) ==
    SubSeq(q, 1, IF Len(q) > TitleLimit THEN TitleLimit ELSE Len(q))
        \o (IF Len(q) > TitleLimit THEN Ellipsis ELSE <<>>)

\* tone-selector: the buttons of the two rows
TONES == {"insightful", "supportive", "analytical", "creative", "direct"}

STYLES == {"concise", "detailed", "bullet_points", "narrative"}

\* what the generation model may return
Interpretations == {<<"a">>, <<"a", "a">>}

\* no interpret request pending
NoInterpret == [pc |-> "none", request |-> [input |-> <<>>, tone |-> "", style |-> "",
                                            context |-> Null],
                resp |-> NoResp]

\* handleResponse not yet applied
Pending == [throws |-> FALSE, name |-> "pending", status |-> 0, message |-> "", data |-> <<>>]

\* ------------------------------------------------------------------ Init
\* the Document records of the two documents earlier visits uploaded
StoredInfo ==
    [d \in 1..MaxDocs |->
        IF d = 1 THEN [filename |-> [stem |-> "report", ext |-> ".pdf"], chunks |-> 2]
        ELSE IF d = 2 THEN [filename |-> [stem |-> "readme", ext |-> ".md"], chunks |-> 1]
        ELSE NoInfo]

\* the documents page after its first render, and the server it talks to
DocumentsInit ==
    /\ documents = <<>>
    /\ selectedDoc = NoId
    /\ messages = <<>>
    /\ error = NoError
    /\ isLoading = TRUE
    /\ sessions = <<>>
    /\ currentSessionId = NoId
    /\ isLoadingSessions = FALSE
    /\ chatIsLoading = FALSE
    /\ isUploading = FALSE
    /\ file = NoFile
    /\ uploadError = NoError
    /\ docInfo = [d \in 1..MaxDocs |-> NoInfo]
    \* the mount effect has called fetchDocuments()
    /\ tasks = [i \in Slots |->
                  IF i = 1 THEN Task("fetchDocuments", NoId, NoId) ELSE Idle]
    \* the server holds what earlier visits left: documents 1 and 2, and two
    \* sessions of document 1, session 2 the more recently updated; their
    \* questions are named 0 and -1
    /\ srvDocs = {1, 2}
    /\ srvInfo = StoredInfo
    /\ srvOrder = <<2, 1>>
    /\ srvMsgs = [s \in 1..MaxSessions |->
                    IF s = 1 THEN <<UserMsg(0), AssistantMsg(0)>>
                    ELSE IF s = 2 THEN <<UserMsg(-1), AssistantMsg(-1)>>
                    ELSE <<>>]
    /\ sessDoc = [s \in 1..MaxSessions |-> IF s <= 2 THEN 1 ELSE NoId]
    /\ nextDoc = 3
    /\ nextSession = 3
    /\ askCount = 0
    /\ ops = 0
    /\ lastAsk = NoAsk

\* the interpret page after its first render
InterpretInit ==
    /\ input = <<>>
    /\ context = <<>>
    /\ tone = "insightful"
    /\ style = "concise"
    /\ interpretation = Null
    /\ interpretError = NoError
    /\ interpretIsLoading = FALSE
    /\ interpretTask = NoInterpret

\* ChatInput after its first render; nothing submitted yet
ChatInputInit ==
    /\ chatInput = <<>>
    /\ question = Null
    /\ title = Null

Init ==
    /\ DocumentsInit
    /\ InterpretInit
    /\ ChatInputInit
    /\ response = NoResp
    /\ settled = Pending

\* ------------------------------------------------------------ the server
\* the request a task has on the wire
Calls(i, endpoint) ==
    LET t == tasks[i] IN
    CASE endpoint = "listDocuments" -> t.kind = "fetchDocuments" /\ t.pc = "req1"
      [] endpoint = "getSessions" -> t.kind = "fetchSessions" /\ t.pc = "req1"
      [] endpoint = "getSession" ->
            \/ t.kind = "fetchSessions" /\ t.pc = "req2"
            \/ t.kind = "loadSession" /\ t.pc = "req1"
      [] endpoint = "createSession" ->
            \/ t.kind = "handleCreateSession" /\ t.pc = "req1"
            \/ t.kind = "handleAsk" /\ t.pc = "req1"
      [] endpoint = "deleteSession" -> t.kind = "handleDeleteSession" /\ t.pc = "req1"
      [] endpoint = "exportSession" -> t.kind = "handleExportSession" /\ t.pc = "req1"
      [] endpoint = "uploadDocument" -> t.kind = "handleUpload" /\ t.pc = "req1"
      [] endpoint = "askQuestion" -> t.kind = "handleAsk" /\ t.pc = "req2"
      [] endpoint = "deleteDocument" -> t.kind = "handleDeleteDoc" /\ t.pc = "req1"

\* the response reaches the client: the await can resume
Reply(i, r) ==
    tasks' = [tasks EXCEPT ![i].resp = r,
                           ![i].pc = IF tasks[i].pc = "req1" THEN "resp1" ELSE "resp2"]

SessionExists(s) == Contains(srvOrder, s)

\* Session Store list(doc_id): most recently updated first
ListSessions(d) == SelectSeq(srvOrder, LAMBDA s : sessDoc[s] = d)

\* updated_at advances: the session moves to the front
Touch(order, s) == <<s>> \o Remove(order, s)

\* Document Registry list(): a doc_id, filename and chunks per document
ListDocuments ==
    LET ids == Ascending(srvDocs) IN
    [k \in 1..Len(ids) |->
        [doc_id |-> ids[k], filename |-> srvInfo[ids[k]].filename, chunks |-> srvInfo[ids[k]].chunks]]

\* GET /documents
SrvListDocuments(i) ==
    /\ Calls(i, "listDocuments")
    /\ Reply(i, JsonOk(ListDocuments))
    /\ UNCHANGED <<elsewhere, infoVars, uploadVars, pageVars, srvVars, ops, askCount, lastAsk>>

\* GET /sessions?doc_id=
SrvGetSessions(i) ==
    /\ Calls(i, "getSessions")
    /\ Reply(i, JsonOk(ListSessions(tasks[i].doc)))
    /\ UNCHANGED <<elsewhere, infoVars, uploadVars, pageVars, srvVars, ops, askCount, lastAsk>>

\* GET /sessions/{id}
SrvGetSession(i) ==
    /\ Calls(i, "getSession")
    /\ Reply(i, IF SessionExists(tasks[i].sid) THEN JsonOk(srvMsgs[tasks[i].sid]) ELSE NotFound)
    /\ UNCHANGED <<elsewhere, infoVars, uploadVars, pageVars, srvVars, ops, askCount, lastAsk>>

\* POST /sessions
SrvCreateSession(i) ==
    /\ Calls(i, "createSession")
    /\ IF tasks[i].doc \in srvDocs
       THEN /\ nextSession <= MaxSessions
            /\ Reply(i, JsonOk(<<nextSession>>))
            /\ srvOrder' = <<nextSession>> \o srvOrder
            /\ sessDoc' = [sessDoc EXCEPT ![nextSession] = tasks[i].doc]
            /\ nextSession' = nextSession + 1
       ELSE /\ Reply(i, NotFound)
            /\ UNCHANGED <<srvOrder, sessDoc, nextSession>>
    /\ UNCHANGED <<elsewhere, infoVars, uploadVars, pageVars, srvDocs, srvMsgs, nextDoc, ops, askCount, lastAsk>>

\* DELETE /sessions/{id}: 204; a 200 with a JSON body is the answer for which
\* the client's success path runs
SrvDeleteSession(i) ==
    /\ Calls(i, "deleteSession")
    /\ IF SessionExists(tasks[i].sid)
       THEN /\ \E r \in {NoContent, JsonOk(<<>>)} : Reply(i, r)
            /\ srvOrder' = Remove(srvOrder, tasks[i].sid)
            /\ srvMsgs' = [srvMsgs EXCEPT ![tasks[i].sid] = <<>>]
       ELSE /\ Reply(i, NotFound)
            /\ UNCHANGED <<srvOrder, srvMsgs>>
    /\ UNCHANGED <<elsewhere, infoVars, uploadVars, pageVars, srvDocs, sessDoc, nextDoc, nextSession, ops, askCount, lastAsk>>

\* GET /sessions/{id}/export
SrvExportSession(i) ==
    /\ Calls(i, "exportSession")
    /\ Reply(i, IF SessionExists(tasks[i].sid)
                 THEN Blob([format |-> tasks[i].fmt, transcript |-> srvMsgs[tasks[i].sid]])
                 ELSE NotFound)
    /\ UNCHANGED <<elsewhere, infoVars, uploadVars, pageVars, srvVars, ops, askCount, lastAsk>>

\* POST /upload: the document gets a freshly generated id
SrvUpload(i) ==
    /\ Calls(i, "uploadDocument")
    /\ IF tasks[i].file.ext \in Supported
       THEN /\ nextDoc <= MaxDocs
            /\ \E c \in Chunks :
                  /\ Reply(i, JsonOk([doc_id |-> nextDoc, filename |-> tasks[i].file,
                                      chunks_created |-> c]))
                  /\ srvInfo' = [srvInfo EXCEPT ![nextDoc] = [filename |-> tasks[i].file,
                                                              chunks |-> c]]
            /\ srvDocs' = srvDocs \cup {nextDoc}
            /\ nextDoc' = nextDoc + 1
       ELSE /\ Reply(i, Unsupported)
            /\ UNCHANGED <<srvDocs, nextDoc, srvInfo>>
    /\ UNCHANGED <<elsewhere, docInfo, uploadVars, pageVars, srvOrder, srvMsgs, sessDoc, nextSession, ops, askCount, lastAsk>>

\* POST /ask: RETRIEVE .. PERSIST .. RESPOND; persists the pair only with a session_id
SrvAsk(i) ==
    LET t == tasks[i] IN
    /\ Calls(i, "askQuestion")
    /\ IF t.doc \notin srvDocs \/ (t.sid # NoId /\ ~SessionExists(t.sid))
       THEN /\ Reply(i, NotFound)
            /\ UNCHANGED <<srvOrder, srvMsgs>>
       ELSE /\ Reply(i, JsonOk(<<t.q>>))
            /\ IF t.sid # NoId
               THEN /\ srvMsgs' = [srvMsgs EXCEPT ![t.sid] = @ \o <<UserMsg(t.q), AssistantMsg(t.q)>>]
                    /\ srvOrder' = Touch(srvOrder, t.sid)
               ELSE UNCHANGED <<srvOrder, srvMsgs>>
    /\ UNCHANGED <<elsewhere, infoVars, uploadVars, pageVars, srvDocs, sessDoc, nextDoc, nextSession, ops, askCount, lastAsk>>

\* DELETE /documents/{doc_id}; whether the document's sessions go with it is
\* left open, so both policies are possible
SrvDeleteDocument(i) ==
    LET d == tasks[i].doc IN
    /\ Calls(i, "deleteDocument")
    /\ IF d \in srvDocs
       THEN /\ \E r \in {NoContent, JsonOk(<<>>)} : Reply(i, r)
            /\ srvDocs' = srvDocs \ {d}
            /\ \/ UNCHANGED <<srvOrder, srvMsgs>>
               \/ /\ ListSessions(d) # <<>>
                  /\ srvOrder' = SelectSeq(srvOrder, LAMBDA s : sessDoc[s] # d)
                  /\ srvMsgs' = [s \in 1..MaxSessions |-> IF sessDoc[s] = d THEN <<>> ELSE srvMsgs[s]]
       ELSE /\ Reply(i, NotFound)
            /\ UNCHANGED <<srvDocs, srvOrder, srvMsgs>>
    /\ UNCHANGED <<elsewhere, infoVars, uploadVars, pageVars, sessDoc, nextDoc, nextSession, ops, askCount, lastAsk>>

\* any request can fail upstream (UpstreamUnavailable / InternalError): nothing is persisted
SrvFail(i) ==
    /\ tasks[i].pc \in {"req1", "req2"}
    /\ \E r \in {ServerError, BadGateway} : Reply(i, r)
    /\ UNCHANGED <<elsewhere, infoVars, uploadVars, pageVars, srvVars, ops, askCount, lastAsk>>

\* ------------------------------------------------------------- the page
Finish(i) == tasks' = [tasks EXCEPT ![i] = Idle]

\* a user operation that invokes a handler
Start(i, t) ==
    /\ ops < MaxOps
    /\ FreeSlot(i)
    /\ tasks' = [tasks EXCEPT ![i] = t]
    /\ ops' = ops + 1

\* a run of questions ends when anything but the asking handler changes the
\* selected document or the current session
RunUnlessSwitched ==
    lastAsk' = IF selectedDoc' = selectedDoc /\ currentSessionId' = currentSessionId
               THEN lastAsk
               ELSE NoAsk

\* the Refresh button: fetchDocuments up to the await
FetchDocuments(i) ==
    /\ documents # <<>> /\ ~isLoading
    /\ Start(i, Task("fetchDocuments", NoId, NoId))
    /\ isLoading' = TRUE
    /\ UNCHANGED <<elsewhere, infoVars, uploadVars, documents, selectedDoc, messages, error, sessions, currentSessionId,
                   isLoadingSessions, chatIsLoading, isUploading, srvVars, askCount>>
    /\ RunUnlessSwitched

\* fetchDocuments after the await; a failure is logged only
FetchDocumentsResume(i) ==
    LET r == HandleResponse(tasks[i].resp) IN
    /\ Awaits(i, "fetchDocuments", "resp1")
    /\ documents' = IF r.throws THEN documents
                     ELSE [k \in 1..Len(r.data) |-> r.data[k].doc_id]
    /\ docInfo' = IF r.throws THEN docInfo
                   ELSE [d \in 1..MaxDocs |->
                           IF \E k \in 1..Len(r.data) : r.data[k].doc_id = d
                           THEN LET k == CHOOSE k \in 1..Len(r.data) : r.data[k].doc_id = d
                                IN [filename |-> r.data[k].filename, chunks |-> r.data[k].chunks]
                           ELSE docInfo[d]]
    /\ isLoading' = FALSE
    /\ Finish(i)
    /\ UNCHANGED <<elsewhere, srvInfo, uploadVars, selectedDoc, messages, error, sessions, currentSessionId,
                   isLoadingSessions, chatIsLoading, isUploading, srvVars, ops, askCount>>
    /\ RunUnlessSwitched

\* DocumentCard.onSelect, and the selectedDoc effect that calls fetchSessions
SelectDoc(i, d) ==
    /\ Contains(documents, d)
    /\ selectedDoc # d
    /\ selectedDoc' = d
    /\ Start(i, Task("fetchSessions", d, NoId))
    /\ isLoadingSessions' = TRUE
    /\ UNCHANGED <<elsewhere, infoVars, uploadVars, documents, messages, error, isLoading, sessions, currentSessionId,
                   chatIsLoading, isUploading, srvVars, askCount>>
    /\ RunUnlessSwitched

\* as FetchSessionsResume, but taking the last session of the list as the most recent
FetchSessionsResumeOldest(i) ==
    LET r == HandleResponse(tasks[i].resp) IN
    /\ Awaits(i, "fetchSessions", "resp1")
    /\ IF r.throws
       THEN /\ sessions' = <<>>
            /\ isLoadingSessions' = FALSE
            /\ Finish(i)
       ELSE /\ sessions' = r.data
            /\ IF Len(r.data) > 0
               THEN /\ tasks' = [tasks EXCEPT ![i].pc = "req2", ![i].docSessions = r.data,
                                              ![i].sid = r.data[Len(r.data)], ![i].resp = NoResp]
                    /\ UNCHANGED isLoadingSessions
               ELSE /\ isLoadingSessions' = FALSE
                    /\ Finish(i)
    /\ UNCHANGED <<elsewhere, infoVars, uploadVars, documents, selectedDoc, messages, error, isLoading, currentSessionId,
                   chatIsLoading, isUploading, srvVars, ops, askCount>>
    /\ RunUnlessSwitched

\* fetchSessions after await getSessions
FetchSessionsResume(i) ==
    LET r == HandleResponse(tasks[i].resp) IN
    /\ Awaits(i, "fetchSessions", "resp1")
    /\ IF r.throws
       THEN /\ sessions' = <<>>
            /\ isLoadingSessions' = FALSE
            /\ Finish(i)
       ELSE /\ sessions' = r.data
            /\ IF Len(r.data) > 0
               THEN /\ tasks' = [tasks EXCEPT ![i].pc = "req2", ![i].docSessions = r.data,
                                              ![i].sid = r.data[1], ![i].resp = NoResp]
                    /\ UNCHANGED isLoadingSessions
               ELSE /\ isLoadingSessions' = FALSE
                    /\ Finish(i)
    /\ UNCHANGED <<elsewhere, infoVars, uploadVars, documents, selectedDoc, messages, error, isLoading, currentSessionId,
                   chatIsLoading, isUploading, srvVars, ops, askCount>>
    /\ RunUnlessSwitched

\* fetchSessions after await getSession(mostRecent.id)
FetchSessionsLoaded(i) ==
    LET r == HandleResponse(tasks[i].resp) IN
    /\ Awaits(i, "fetchSessions", "resp2")
    /\ IF r.throws
       THEN /\ sessions' = <<>>
            /\ UNCHANGED <<currentSessionId, messages>>
       ELSE /\ currentSessionId' = tasks[i].sid
            /\ messages' = r.data
            /\ UNCHANGED sessions
    /\ isLoadingSessions' = FALSE
    /\ Finish(i)
    /\ UNCHANGED <<elsewhere, infoVars, uploadVars, documents, selectedDoc, error, isLoading, chatIsLoading, isUploading,
                   srvVars, ops, askCount>>
    /\ RunUnlessSwitched

\* a session row is on screen only when the list is not loading
SessionShown(s) == selectedDoc # NoId /\ ~isLoadingSessions /\ Contains(sessions, s)

\* SessionList.onSelect: loadSession up to the await
LoadSession(i, s) ==
    /\ SessionShown(s)
    /\ Start(i, Task("loadSession", NoId, s))
    /\ UNCHANGED <<elsewhere, infoVars, uploadVars, pageVars, srvVars, askCount>>
    /\ RunUnlessSwitched

LoadSessionResume(i) ==
    LET r == HandleResponse(tasks[i].resp) IN
    /\ Awaits(i, "loadSession", "resp1")
    /\ IF r.throws
       THEN /\ error' = r.message
            /\ UNCHANGED <<currentSessionId, messages>>
       ELSE /\ currentSessionId' = tasks[i].sid
            /\ messages' = r.data
            /\ UNCHANGED error
    /\ Finish(i)
    /\ UNCHANGED <<elsewhere, infoVars, uploadVars, documents, selectedDoc, isLoading, sessions, isLoadingSessions,
                   chatIsLoading, isUploading, srvVars, ops, askCount>>
    /\ RunUnlessSwitched

\* SessionList.onCreate
HandleCreateSession(i) ==
    /\ selectedDoc # NoId
    /\ Start(i, Task("handleCreateSession", selectedDoc, NoId))
    /\ UNCHANGED <<elsewhere, infoVars, uploadVars, pageVars, srvVars, askCount>>
    /\ RunUnlessSwitched

\* as HandleCreateSessionResume, but putting the new session last in the list
HandleCreateSessionResumeAppends(i) ==
    LET r == HandleResponse(tasks[i].resp) IN
    /\ Awaits(i, "handleCreateSession", "resp1")
    /\ IF r.throws
       THEN /\ error' = r.message
            /\ UNCHANGED <<sessions, currentSessionId, messages>>
       ELSE /\ sessions' = Append(sessions, r.data[1])
            /\ currentSessionId' = r.data[1]
            /\ messages' = <<>>
            /\ UNCHANGED error
    /\ Finish(i)
    /\ UNCHANGED <<elsewhere, infoVars, uploadVars, documents, selectedDoc, isLoading, isLoadingSessions, chatIsLoading,
                   isUploading, srvVars, ops, askCount>>
    /\ RunUnlessSwitched

HandleCreateSessionResume(i) ==
    LET r == HandleResponse(tasks[i].resp) IN
    /\ Awaits(i, "handleCreateSession", "resp1")
    /\ IF r.throws
       THEN /\ error' = r.message
            /\ UNCHANGED <<sessions, currentSessionId, messages>>
       ELSE /\ sessions' = <<r.data[1]>> \o sessions
            /\ currentSessionId' = r.data[1]
            /\ messages' = <<>>
            /\ UNCHANGED error
    /\ Finish(i)
    /\ UNCHANGED <<elsewhere, infoVars, uploadVars, documents, selectedDoc, isLoading, isLoadingSessions, chatIsLoading,
                   isUploading, srvVars, ops, askCount>>
    /\ RunUnlessSwitched

\* SessionList.onDelete
HandleDeleteSession(i, s) ==
    /\ SessionShown(s)
    /\ Start(i, [Task("handleDeleteSession", NoId, s) EXCEPT !.cur = currentSessionId])
    /\ UNCHANGED <<elsewhere, infoVars, uploadVars, pageVars, srvVars, askCount>>
    /\ RunUnlessSwitched

\* as HandleDeleteSessionResume, but leaving the deleted session current
HandleDeleteSessionResumeKeepsCurrent(i) ==
    LET r == HandleResponse(tasks[i].resp)
        t == tasks[i]
    IN
    /\ Awaits(i, "handleDeleteSession", "resp1")
    /\ IF r.throws
       THEN /\ error' = r.message
            /\ UNCHANGED <<sessions, currentSessionId, messages>>
       ELSE /\ sessions' = Remove(sessions, t.sid)
            /\ UNCHANGED <<currentSessionId, messages>>
            /\ UNCHANGED error
    /\ Finish(i)
    /\ UNCHANGED <<elsewhere, infoVars, uploadVars, documents, selectedDoc, isLoading, isLoadingSessions, chatIsLoading,
                   isUploading, srvVars, ops, askCount>>
    /\ RunUnlessSwitched

HandleDeleteSessionResume(i) ==
    LET r == HandleResponse(tasks[i].resp)
        t == tasks[i]
    IN
    /\ Awaits(i, "handleDeleteSession", "resp1")
    /\ IF r.throws
       THEN /\ error' = r.message
            /\ UNCHANGED <<sessions, currentSessionId, messages>>
       ELSE /\ sessions' = Remove(sessions, t.sid)
            /\ IF t.cur = t.sid
               THEN currentSessionId' = NoId /\ messages' = <<>>
               ELSE UNCHANGED <<currentSessionId, messages>>
            /\ UNCHANGED error
    /\ Finish(i)
    /\ UNCHANGED <<elsewhere, infoVars, uploadVars, documents, selectedDoc, isLoading, isLoadingSessions, chatIsLoading,
                   isUploading, srvVars, ops, askCount>>
    /\ RunUnlessSwitched

\* SessionList.onExport, from the export menu's two entries
HandleExportSession(i, s, format) ==
    /\ SessionShown(s)
    /\ Start(i, [Task("handleExportSession", NoId, s) EXCEPT !.fmt = format])
    /\ UNCHANGED <<elsewhere, infoVars, uploadVars, pageVars, srvVars, askCount>>
    /\ RunUnlessSwitched

HandleExportSessionResume(i) ==
    LET r == ExportResponse(tasks[i].resp) IN
    /\ Awaits(i, "handleExportSession", "resp1")
    /\ error' = IF r.throws THEN r.message ELSE error
    /\ Finish(i)
    /\ UNCHANGED <<elsewhere, infoVars, uploadVars, documents, selectedDoc, messages, isLoading, sessions, currentSessionId,
                   isLoadingSessions, chatIsLoading, isUploading, srvVars, ops, askCount>>
    /\ RunUnlessSwitched

\* the New Chat button
NewChat ==
    /\ selectedDoc # NoId
    /\ ops < MaxOps
    /\ ops' = ops + 1
    /\ messages' = <<>>
    /\ currentSessionId' = NoId
    /\ UNCHANGED <<elsewhere, infoVars, uploadVars, documents, selectedDoc, error, isLoading, sessions, isLoadingSessions,
                   chatIsLoading, isUploading, tasks, srvVars, askCount>>
    /\ RunUnlessSwitched

\* FileUpload.handleFileSelect: the file input, disabled while uploading
HandleFileSelect(f) ==
    /\ ~isUploading
    /\ f.ext \in Accept
    /\ ops < MaxOps
    /\ ops' = ops + 1
    /\ file' = f
    /\ uploadError' = NoError
    /\ UNCHANGED <<elsewhere, infoVars, pageVars, tasks, srvVars, askCount>>
    /\ RunUnlessSwitched

\* FileUpload.handleDrop: the drop zone
HandleDrop(f) ==
    /\ ops < MaxOps
    /\ ops' = ops + 1
    /\ file' = f
    /\ uploadError' = NoError
    /\ UNCHANGED <<elsewhere, infoVars, pageVars, tasks, srvVars, askCount>>
    /\ RunUnlessSwitched

\* FileUpload.clearFile: the X next to the chosen file
ClearFile ==
    /\ file # NoFile
    /\ ops < MaxOps
    /\ ops' = ops + 1
    /\ file' = NoFile
    /\ uploadError' = NoError
    /\ UNCHANGED <<elsewhere, infoVars, pageVars, tasks, srvVars, askCount>>
    /\ RunUnlessSwitched

\* FileUpload.handleUpload calling the page's handleUpload, up to the await
HandleUpload(i) ==
    /\ file # NoFile
    /\ ~isUploading
    /\ Start(i, [Task("handleUpload", NoId, NoId) EXCEPT !.file = file])
    /\ isUploading' = TRUE
    /\ uploadError' = NoError
    /\ error' = NoError
    /\ UNCHANGED <<elsewhere, infoVars, file, documents, selectedDoc, messages, isLoading, sessions, currentSessionId,
                   isLoadingSessions, chatIsLoading, srvVars, askCount>>
    /\ RunUnlessSwitched

\* as HandleUploadResume, but FileUpload forgets the file whatever the outcome
HandleUploadResumeDropsFile(i) ==
    LET r == HandleResponse(tasks[i].resp) IN
    /\ Awaits(i, "handleUpload", "resp1")
    /\ IF r.throws
       THEN /\ Finish(i)
            /\ uploadError' = r.message
            /\ UNCHANGED <<documents, docInfo, selectedDoc, messages, currentSessionId, sessions,
                           isLoadingSessions>>
       ELSE /\ UNCHANGED uploadError
            /\ documents' = Append(documents, r.data.doc_id)
            /\ docInfo' = [docInfo EXCEPT ![r.data.doc_id] =
                              [filename |-> r.data.filename, chunks |-> r.data.chunks_created]]
            /\ selectedDoc' = r.data.doc_id
            /\ messages' = <<>>
            /\ currentSessionId' = NoId
            /\ sessions' = <<>>
            /\ tasks' = [tasks EXCEPT ![i] = Task("fetchSessions", r.data.doc_id, NoId)]
            /\ isLoadingSessions' = TRUE
    /\ file' = NoFile
    /\ isUploading' = FALSE
    /\ UNCHANGED <<elsewhere, srvInfo, error, isLoading, chatIsLoading, srvVars, ops, askCount>>
    /\ RunUnlessSwitched

\* as HandleUploadResume, but taking the new document's chunks from a field
\* the response does not have
HandleUploadResumeNoChunks(i) ==
    LET r == HandleResponse(tasks[i].resp) IN
    /\ Awaits(i, "handleUpload", "resp1")
    /\ IF r.throws
       THEN /\ Finish(i)
            /\ uploadError' = r.message
            /\ UNCHANGED <<file, documents, docInfo, selectedDoc, messages, currentSessionId,
                           sessions, isLoadingSessions>>
       ELSE /\ file' = NoFile
            /\ UNCHANGED uploadError
            /\ documents' = Append(documents, r.data.doc_id)
            /\ docInfo' = [docInfo EXCEPT ![r.data.doc_id] =
                              [filename |-> r.data.filename, chunks |-> 0]]
            /\ selectedDoc' = r.data.doc_id
            /\ messages' = <<>>
            /\ currentSessionId' = NoId
            /\ sessions' = <<>>
            /\ tasks' = [tasks EXCEPT ![i] = Task("fetchSessions", r.data.doc_id, NoId)]
            /\ isLoadingSessions' = TRUE
    /\ isUploading' = FALSE
    /\ UNCHANGED <<elsewhere, srvInfo, error, isLoading, chatIsLoading, srvVars, ops, askCount>>
    /\ RunUnlessSwitched

\* as HandleUploadResume, but with setIsUploading(false) after the try block
\* instead of in a finally: a rejected upload leaves the flag up
HandleUploadResumeNoFinally(i) ==
    LET r == HandleResponse(tasks[i].resp) IN
    /\ Awaits(i, "handleUpload", "resp1")
    /\ IF r.throws
       THEN /\ Finish(i)
            /\ uploadError' = r.message
            /\ UNCHANGED <<file, documents, docInfo, selectedDoc, messages, currentSessionId,
                           sessions, isLoadingSessions, isUploading>>
       ELSE /\ file' = NoFile
            /\ UNCHANGED uploadError
            /\ documents' = Append(documents, r.data.doc_id)
            /\ docInfo' = [docInfo EXCEPT ![r.data.doc_id] =
                              [filename |-> r.data.filename, chunks |-> r.data.chunks_created]]
            /\ selectedDoc' = r.data.doc_id
            /\ messages' = <<>>
            /\ currentSessionId' = NoId
            /\ sessions' = <<>>
            /\ tasks' = [tasks EXCEPT ![i] = Task("fetchSessions", r.data.doc_id, NoId)]
            /\ isLoadingSessions' = TRUE
            /\ isUploading' = FALSE
    /\ UNCHANGED <<elsewhere, srvInfo, error, isLoading, chatIsLoading, srvVars, ops, askCount>>
    /\ RunUnlessSwitched

\* handleUpload after the await; the new selectedDoc object triggers the effect,
\* which calls fetchSessions for it.  A rejection goes to FileUpload's catch.
HandleUploadResume(i) ==
    LET r == HandleResponse(tasks[i].resp) IN
    /\ Awaits(i, "handleUpload", "resp1")
    /\ IF r.throws
       THEN /\ Finish(i)
            /\ uploadError' = r.message
            /\ UNCHANGED <<file, documents, docInfo, selectedDoc, messages, currentSessionId,
                           sessions, isLoadingSessions>>
       ELSE /\ file' = NoFile
            /\ UNCHANGED uploadError
            /\ documents' = Append(documents, r.data.doc_id)
            /\ docInfo' = [docInfo EXCEPT ![r.data.doc_id] =
                              [filename |-> r.data.filename, chunks |-> r.data.chunks_created]]
            /\ selectedDoc' = r.data.doc_id
            /\ messages' = <<>>
            /\ currentSessionId' = NoId
            /\ sessions' = <<>>
            /\ tasks' = [tasks EXCEPT ![i] = Task("fetchSessions", r.data.doc_id, NoId)]
            /\ isLoadingSessions' = TRUE
    /\ isUploading' = FALSE
    /\ UNCHANGED <<elsewhere, srvInfo, error, isLoading, chatIsLoading, srvVars, ops, askCount>>
    /\ RunUnlessSwitched

\* as HandleAsk, but with a closure that still holds the initial, null currentSessionId
HandleAskStaleClosure(i) ==
    LET q == askCount + 1
        t == [Task("handleAsk", selectedDoc, NoId) EXCEPT
                 !.sel = selectedDoc, !.cur = NoId, !.q = q,
                 !.before = messages]
    IN
    /\ selectedDoc # NoId
    /\ ~chatIsLoading
    /\ askCount' = q
    /\ chatIsLoading' = TRUE
    /\ Start(i, t)
    /\ UNCHANGED lastAsk
    /\ UNCHANGED <<elsewhere, infoVars, uploadVars, documents, selectedDoc, messages, error, isLoading, sessions,
                   currentSessionId, isLoadingSessions, isUploading, srvVars>>

\* ChatInput.handleSubmit calling handleAsk, up to its first await: createSession
\* when the captured currentSessionId is null, else askQuestion
HandleAsk(i) ==
    LET q == askCount + 1
        t == [Task("handleAsk", selectedDoc, currentSessionId) EXCEPT
                 !.sel = selectedDoc, !.cur = currentSessionId, !.q = q,
                 !.before = messages]
    IN
    /\ selectedDoc # NoId
    /\ ~chatIsLoading
    /\ askCount' = q
    /\ chatIsLoading' = TRUE
    /\ IF currentSessionId = NoId
       THEN /\ Start(i, t)
            /\ UNCHANGED <<messages, lastAsk>>
       ELSE /\ Start(i, [t EXCEPT !.pc = "req2"])
            /\ messages' = Append(messages, UserMsg(q))
            /\ lastAsk' = [doc |-> selectedDoc, sid |-> currentSessionId]
    /\ UNCHANGED <<elsewhere, infoVars, uploadVars, documents, selectedDoc, error, isLoading, sessions, currentSessionId,
                   isLoadingSessions, isUploading, srvVars>>

\* as HandleAskCreated, but the local sessionId is never assigned the new id
HandleAskCreatedKeepsNull(i) ==
    LET r == HandleResponse(tasks[i].resp)
        t == tasks[i]
        sessionId == IF r.throws THEN NoId ELSE r.data[1]
    IN
    /\ Awaits(i, "handleAsk", "resp1")
    /\ IF r.throws
       THEN UNCHANGED <<currentSessionId, sessions>>
       ELSE /\ currentSessionId' = sessionId
            /\ sessions' = <<sessionId>> \o sessions
    /\ messages' = Append(messages, UserMsg(t.q))
    /\ tasks' = [tasks EXCEPT ![i].pc = "req2", ![i].sid = NoId, ![i].resp = NoResp]
    /\ lastAsk' = [doc |-> t.doc, sid |-> NoId]
    /\ UNCHANGED <<elsewhere, infoVars, uploadVars, documents, selectedDoc, error, isLoading, isLoadingSessions,
                   chatIsLoading, isUploading, srvVars, ops, askCount>>

\* handleAsk after await createSession: a failure is logged and the question
\* goes out without a session
HandleAskCreated(i) ==
    LET r == HandleResponse(tasks[i].resp)
        t == tasks[i]
        sessionId == IF r.throws THEN NoId ELSE r.data[1]
    IN
    /\ Awaits(i, "handleAsk", "resp1")
    /\ IF r.throws
       THEN UNCHANGED <<currentSessionId, sessions>>
       ELSE /\ currentSessionId' = sessionId
            /\ sessions' = <<sessionId>> \o sessions
    /\ messages' = Append(messages, UserMsg(t.q))
    /\ tasks' = [tasks EXCEPT ![i].pc = "req2", ![i].sid = sessionId, ![i].resp = NoResp]
    /\ lastAsk' = [doc |-> t.doc, sid |-> sessionId]
    /\ UNCHANGED <<elsewhere, infoVars, uploadVars, documents, selectedDoc, error, isLoading, isLoadingSessions,
                   chatIsLoading, isUploading, srvVars, ops, askCount>>

\* as HandleAskResume, but an answer clears the error
HandleAskResumeClearsError(i) ==
    LET r == HandleResponse(tasks[i].resp)
        t == tasks[i]
    IN
    /\ Awaits(i, "handleAsk", "resp2")
    /\ IF r.throws
       THEN error' = r.message /\ UNCHANGED messages
       ELSE messages' = Append(messages, AssistantMsg(r.data[1])) /\ error' = NoError
    /\ chatIsLoading' = IF t.stale THEN chatIsLoading ELSE FALSE
    /\ Finish(i)
    /\ UNCHANGED <<elsewhere, infoVars, uploadVars, documents, selectedDoc, isLoading, sessions, currentSessionId,
                   isLoadingSessions, isUploading, srvVars, ops, askCount, lastAsk>>

\* handleAsk after await askQuestion, then ChatInput's finally
HandleAskResume(i) ==
    LET r == HandleResponse(tasks[i].resp)
        t == tasks[i]
    IN
    /\ Awaits(i, "handleAsk", "resp2")
    /\ IF r.throws
       THEN error' = r.message /\ UNCHANGED messages
       ELSE messages' = Append(messages, AssistantMsg(r.data[1])) /\ UNCHANGED error
    /\ chatIsLoading' = IF t.stale THEN chatIsLoading ELSE FALSE
    /\ Finish(i)
    /\ UNCHANGED <<elsewhere, infoVars, uploadVars, documents, selectedDoc, isLoading, sessions, currentSessionId,
                   isLoadingSessions, isUploading, srvVars, ops, askCount, lastAsk>>

\* DocumentCard.onDelete
HandleDeleteDoc(i, d) ==
    /\ Contains(documents, d)
    /\ Start(i, [Task("handleDeleteDoc", d, NoId) EXCEPT !.sel = selectedDoc])
    /\ UNCHANGED <<elsewhere, infoVars, uploadVars, pageVars, srvVars, askCount>>
    /\ RunUnlessSwitched

\* as HandleDeleteDocResume, but without setMessages([]) for the selected document
HandleDeleteDocResumeKeepsMessages(i) ==
    LET r == HandleResponse(tasks[i].resp)
        t == tasks[i]
    IN
    /\ Awaits(i, "handleDeleteDoc", "resp1")
    /\ IF r.throws
       THEN /\ error' = r.message
            /\ Finish(i)
            /\ UNCHANGED <<documents, selectedDoc, messages, sessions, currentSessionId,
                           chatIsLoading>>
       ELSE /\ documents' = Remove(documents, t.doc)
            /\ IF t.sel = t.doc
               THEN /\ selectedDoc' = NoId
                    /\ UNCHANGED messages
                    /\ sessions' = <<>>
                    /\ currentSessionId' = NoId
                    /\ chatIsLoading' = FALSE
                    /\ tasks' = [j \in Slots |->
                                   IF j = i THEN Idle
                                   ELSE IF tasks[j].kind = "handleAsk"
                                        THEN [tasks[j] EXCEPT !.stale = TRUE]
                                        ELSE tasks[j]]
               ELSE /\ Finish(i)
                    /\ UNCHANGED <<selectedDoc, messages, sessions, currentSessionId,
                                   chatIsLoading>>
            /\ UNCHANGED error
    /\ UNCHANGED <<elsewhere, infoVars, uploadVars, isLoading, isLoadingSessions, isUploading, srvVars, ops, askCount>>
    /\ RunUnlessSwitched

\* handleDeleteDoc after the await.  With selectedDoc null the chat area, and
\* the ChatInput in it, unmounts: a later ChatInput starts with isLoading false
\* and the finally of a pending submit no longer reaches it.
HandleDeleteDocResume(i) ==
    LET r == HandleResponse(tasks[i].resp)
        t == tasks[i]
    IN
    /\ Awaits(i, "handleDeleteDoc", "resp1")
    /\ IF r.throws
       THEN /\ error' = r.message
            /\ Finish(i)
            /\ UNCHANGED <<documents, selectedDoc, messages, sessions, currentSessionId,
                           chatIsLoading>>
       ELSE /\ documents' = Remove(documents, t.doc)
            /\ IF t.sel = t.doc
               THEN /\ selectedDoc' = NoId
                    /\ messages' = <<>>
                    /\ sessions' = <<>>
                    /\ currentSessionId' = NoId
                    /\ chatIsLoading' = FALSE
                    /\ tasks' = [j \in Slots |->
                                   IF j = i THEN Idle
                                   ELSE IF tasks[j].kind = "handleAsk"
                                        THEN [tasks[j] EXCEPT !.stale = TRUE]
                                        ELSE tasks[j]]
               ELSE /\ Finish(i)
                    /\ UNCHANGED <<selectedDoc, messages, sessions, currentSessionId,
                                   chatIsLoading>>
            /\ UNCHANGED error
    /\ UNCHANGED <<elsewhere, infoVars, uploadVars, isLoading, isLoadingSessions, isUploading, srvVars, ops, askCount>>
    /\ RunUnlessSwitched

\* --------------------------------------------------------- specification
Server ==
    \E i \in Slots :
        \/ SrvListDocuments(i)
        \/ SrvGetSessions(i)
        \/ SrvGetSession(i)
        \/ SrvCreateSession(i)
        \/ SrvDeleteSession(i)
        \/ SrvExportSession(i)
        \/ SrvUpload(i)
        \/ SrvAsk(i)
        \/ SrvDeleteDocument(i)
        \/ SrvFail(i)

Page ==
    \/ NewChat
    \/ \E f \in Files : HandleFileSelect(f)
    \/ \E f \in Files : HandleDrop(f)
    \/ ClearFile
    \/ \E i \in Slots :
        \/ FetchDocuments(i)
        \/ FetchDocumentsResume(i)
        \/ \E d \in 1..MaxDocs : SelectDoc(i, d)
        \/ FetchSessionsResume(i)
        \/ FetchSessionsLoaded(i)
        \/ \E s \in 1..MaxSessions : LoadSession(i, s)
        \/ LoadSessionResume(i)
        \/ HandleCreateSession(i)
        \/ HandleCreateSessionResume(i)
        \/ \E s \in 1..MaxSessions : HandleDeleteSession(i, s)
        \/ HandleDeleteSessionResume(i)
        \/ \E s \in 1..MaxSessions, format \in ExportFormats : HandleExportSession(i, s, format)
        \/ HandleExportSessionResume(i)
        \/ HandleUpload(i)
        \/ HandleUploadResume(i)
        \/ HandleAsk(i)
        \/ HandleAskCreated(i)
        \/ HandleAskResume(i)
        \/ \E d \in 1..MaxDocs : HandleDeleteDoc(i, d)
        \/ HandleDeleteDocResume(i)

Next == Server \/ Page

Spec == Init /\ [][Next]_vars

\* the documents page once the list has loaded, document 1 has been selected
\* and fetchSessions has put its most recent session on display
ChatInit ==
    /\ documents = <<1, 2>>
    /\ selectedDoc = 1
    /\ messages = <<UserMsg(-1), AssistantMsg(-1)>>
    /\ error = NoError
    /\ isLoading = FALSE
    /\ sessions = <<2, 1>>
    /\ currentSessionId = 2
    /\ isLoadingSessions = FALSE
    /\ chatIsLoading = FALSE
    /\ isUploading = FALSE
    /\ file = NoFile
    /\ uploadError = NoError
    /\ tasks = [i \in Slots |-> Idle]
    /\ srvDocs = {1, 2}
    /\ srvInfo = StoredInfo
    /\ docInfo = StoredInfo
    /\ srvOrder = <<2, 1>>
    /\ srvMsgs = [s \in 1..MaxSessions |->
                    IF s = 1 THEN <<UserMsg(0), AssistantMsg(0)>>
                    ELSE IF s = 2 THEN <<UserMsg(-1), AssistantMsg(-1)>>
                    ELSE <<>>]
    /\ sessDoc = [s \in 1..MaxSessions |-> IF s <= 2 THEN 1 ELSE NoId]
    /\ nextDoc = 3
    /\ nextSession = 3
    /\ askCount = 0
    /\ ops = 0
    /\ lastAsk = NoAsk
    /\ InterpretInit
    /\ ChatInputInit
    /\ response = NoResp
    /\ settled = Pending

\* the chat area in use: the user selects and deletes documents and asks
\* questions, and the server answers the requests these operations send
ChatNext ==
    \E i \in Slots :
        \/ SrvGetSessions(i)
        \/ SrvGetSession(i)
        \/ SrvCreateSession(i)
        \/ SrvAsk(i)
        \/ SrvDeleteDocument(i)
        \/ SrvFail(i)
        \/ \E d \in 1..MaxDocs : SelectDoc(i, d)
        \/ FetchSessionsResume(i)
        \/ FetchSessionsLoaded(i)
        \/ HandleAsk(i)
        \/ HandleAskCreated(i)
        \/ HandleAskResume(i)
        \/ \E d \in 1..MaxDocs : HandleDeleteDoc(i, d)
        \/ HandleDeleteDocResume(i)

ChatSpec == ChatInit /\ [][ChatNext]_vars

\* ------------------------------------------------------ the interpret page
\* the two textareas
SetInput(s) ==
    /\ input' = s
    /\ UNCHANGED <<context, tone, style, interpretation, interpretError, interpretIsLoading,
                   interpretTask, documentsVars, apiVars, titleVars>>

SetContext(s) ==
    /\ context' = s
    /\ UNCHANGED <<input, tone, style, interpretation, interpretError, interpretIsLoading,
                   interpretTask, documentsVars, apiVars, titleVars>>

\* ToneSelector.onToneChange / onStyleChange
SetTone(t) ==
    /\ tone' = t
    /\ UNCHANGED <<input, context, style, interpretation, interpretError, interpretIsLoading,
                   interpretTask, documentsVars, apiVars, titleVars>>

SetStyle(s) ==
    /\ style' = s
    /\ UNCHANGED <<input, context, tone, interpretation, interpretError, interpretIsLoading,
                   interpretTask, documentsVars, apiVars, titleVars>>

\* as HandleClear, but leaving tone and style as selected
HandleClearKeepsTone ==
    /\ ~interpretIsLoading
    /\ input' = <<>>
    /\ context' = <<>>
    /\ interpretation' = Null
    /\ interpretError' = NoError
    /\ UNCHANGED <<tone, style, interpretIsLoading, interpretTask, documentsVars, apiVars, titleVars>>

\* the Clear button, disabled while loading
HandleClear ==
    /\ ~interpretIsLoading
    /\ input' = <<>>
    /\ context' = <<>>
    /\ interpretation' = Null
    /\ interpretError' = NoError
    /\ tone' = "insightful"
    /\ style' = "concise"
    /\ UNCHANGED <<interpretIsLoading, interpretTask, documentsVars, apiVars, titleVars>>

\* as HandleInterpret, but sending input and context as typed
HandleInterpretUntrimmed ==
    /\ ~interpretIsLoading
    /\ IF Trim(input) = <<>>
       THEN UNCHANGED <<interpretIsLoading, interpretError, interpretTask>>
       ELSE /\ interpretIsLoading' = TRUE
            /\ interpretError' = NoError
            /\ interpretTask' = [pc |-> "req",
                                 request |-> [input |-> input, tone |-> tone, style |-> style,
                                              context |-> Some(context)],
                                 resp |-> NoResp]
    /\ UNCHANGED <<input, context, tone, style, interpretation, documentsVars, apiVars, titleVars>>

\* handleInterpret up to the await.  The Interpret button is disabled while
\* loading; that it is also disabled for a blank input repeats the handler's
\* first line, which is what is modelled here
HandleInterpret ==
    /\ ~interpretIsLoading
    /\ IF Trim(input) = <<>>
       THEN UNCHANGED <<interpretIsLoading, interpretError, interpretTask>>
       ELSE /\ interpretIsLoading' = TRUE
            /\ interpretError' = NoError
            /\ interpretTask' = [pc |-> "req",
                                 request |-> [input |-> Trim(input), tone |-> tone,
                                              style |-> style, context |-> TrimOrNull(context)],
                                 resp |-> NoResp]
    /\ UNCHANGED <<input, context, tone, style, interpretation, documentsVars, apiVars, titleVars>>

\* POST /interpret: the generated text with the tone and style applied
SrvInterpret ==
    /\ interpretTask.pc = "req"
    /\ \E t \in Interpretations :
          interpretTask' = [interpretTask EXCEPT
                               !.pc = "resp",
                               !.resp = JsonOk([interpretation |-> t,
                                                tone |-> interpretTask.request.tone,
                                                style |-> interpretTask.request.style])]
    /\ UNCHANGED <<input, context, tone, style, interpretation, interpretError,
                   interpretIsLoading, documentsVars, apiVars, titleVars>>

\* the generation call failed (UpstreamUnavailable / InternalError)
SrvInterpretFail ==
    /\ interpretTask.pc = "req"
    /\ \E r \in {ServerError, BadGateway} :
          interpretTask' = [interpretTask EXCEPT !.pc = "resp", !.resp = r]
    /\ UNCHANGED <<input, context, tone, style, interpretation, interpretError,
                   interpretIsLoading, documentsVars, apiVars, titleVars>>

\* handleInterpret after the await: try, catch, finally
HandleInterpretResume ==
    LET r == HandleResponse(interpretTask.resp) IN
    /\ interpretTask.pc = "resp"
    /\ IF r.throws
       THEN interpretError' = r.message /\ UNCHANGED interpretation
       ELSE interpretation' = Some(r.data.interpretation) /\ UNCHANGED interpretError
    /\ interpretIsLoading' = FALSE
    /\ interpretTask' = NoInterpret
    /\ UNCHANGED <<input, context, tone, style, documentsVars, apiVars, titleVars>>

InterpretNext ==
    \/ \E s \in Texts : SetInput(s)
    \/ \E s \in Texts : SetContext(s)
    \/ \E t \in TONES : SetTone(t)
    \/ \E s \in STYLES : SetStyle(s)
    \/ HandleClear
    \/ HandleInterpret
    \/ SrvInterpret
    \/ SrvInterpretFail
    \/ HandleInterpretResume

InterpretSpec == Init /\ [][InterpretNext]_vars

\* ----------------------------------------------------------- the API layer
\* status lines and bodies a response can have
Statuses == {200, 201, 204, 400, 401, 403, 404, 422, 429, 500, 502, 503}

Bodies == {"json", "text", "empty"}

Details == {Undefined, "", "Not found", "Unsupported file format", "Internal error"}

Response(status, body, detail) ==
    [ok |-> Ok(status), status |-> status, body |-> body,
     detail |-> IF body = "json" THEN detail ELSE Undefined, data |-> <<>>]

Responses == {Response(st, b, d) : st \in Statuses, b \in Bodies, d \in Details}

ApiInit ==
    /\ DocumentsInit
    /\ InterpretInit
    /\ ChatInputInit
    /\ response \in Responses
    /\ settled = Pending

\* a wrapper returns handleResponse(response)
ApiCall ==
    /\ settled = Pending
    /\ settled' = HandleResponse(response)
    /\ UNCHANGED <<response, documentsVars, interpretVars, titleVars>>

ApiSpec == ApiInit /\ [][ApiCall]_vars

\* ------------------------------------------------- the title of a session
\* ChatInput's text field
SetChatInput(s) ==
    /\ chatInput' = s
    /\ UNCHANGED <<question, title, documentsVars, interpretVars, apiVars>>

\* ChatInput.handleSubmit passing the message to handleAsk, which with no
\* current session titles the session it creates; the requests that follow
\* are those of HandleAsk
HandleSubmit ==
    LET message == Trim(chatInput) IN
    /\ message # <<>>
    /\ chatInput' = <<>>
    /\ question' = Some(message)
    /\ title' = Some(SessionTitle(message))
    /\ UNCHANGED <<documentsVars, interpretVars, apiVars>>

TitleNext ==
    \/ \E s \in QuestionInputs : SetChatInput(s)
    \/ HandleSubmit

TitleSpec == Init /\ [][TitleNext]_vars

\* ------------------------------------------------------ the loading flags
\* the interpret page with a text typed into its first textarea
InterpretTyped ==
    /\ input = <<" ", "a", " ">>
    /\ context = <<>>
    /\ tone = "insightful"
    /\ style = "concise"
    /\ interpretation = Null
    /\ interpretError = NoError
    /\ interpretIsLoading = FALSE
    /\ interpretTask = NoInterpret

\* the documents page at rest after MaxOps operations: the list has loaded and
\* files were dropped on the upload area, one after the other
DocumentsAtRest ==
    /\ documents = <<1, 2>>
    /\ selectedDoc = NoId
    /\ messages = <<>>
    /\ error = NoError
    /\ isLoading = FALSE
    /\ sessions = <<>>
    /\ currentSessionId = NoId
    /\ isLoadingSessions = FALSE
    /\ chatIsLoading = FALSE
    /\ isUploading = FALSE
    /\ file = [stem |-> "setup", ext |-> ".exe"]
    /\ uploadError = NoError
    /\ docInfo = StoredInfo
    /\ tasks = [i \in Slots |-> Idle]
    /\ srvDocs = {1, 2}
    /\ srvInfo = StoredInfo
    /\ srvOrder = <<2, 1>>
    /\ srvMsgs = [s \in 1..MaxSessions |->
                    IF s = 1 THEN <<UserMsg(0), AssistantMsg(0)>>
                    ELSE IF s = 2 THEN <<UserMsg(-1), AssistantMsg(-1)>>
                    ELSE <<>>]
    /\ sessDoc = [s \in 1..MaxSessions |-> IF s <= 2 THEN 1 ELSE NoId]
    /\ nextDoc = 3
    /\ nextSession = 3
    /\ askCount = 0
    /\ ops = MaxOps
    /\ lastAsk = NoAsk

\* one of the two pages is in use: the documents page from its mount on, the
\* interpret page's input still blank, or the interpret page with a text to
\* interpret, the documents page at rest
LoadingInit ==
    /\ \/ DocumentsInit /\ InterpretInit
       \/ DocumentsAtRest /\ InterpretTyped
    /\ ChatInputInit
    /\ response = NoResp
    /\ settled = Pending

\* the server answers request i
Settle(i) ==
    \/ SrvListDocuments(i)
    \/ SrvGetSessions(i)
    \/ SrvGetSession(i)
    \/ SrvCreateSession(i)
    \/ SrvUpload(i)
    \/ SrvAsk(i)
    \/ SrvDeleteDocument(i)
    \/ SrvFail(i)

\* the handler in slot i runs on from its await, through catch and finally
Continue(i) ==
    \/ FetchDocumentsResume(i)
    \/ FetchSessionsResume(i)
    \/ FetchSessionsLoaded(i)
    \/ HandleUploadResume(i)
    \/ HandleAskCreated(i)
    \/ HandleAskResume(i)
    \/ HandleDeleteDocResume(i)

\* the operations that raise a loading flag, and the delete that unmounts
\* the ChatInput
Operate(i) ==
    \/ FetchDocuments(i)
    \/ \E d \in 1..MaxDocs : SelectDoc(i, d)
    \/ HandleUpload(i)
    \/ HandleAsk(i)
    \/ \E d \in 1..MaxDocs : HandleDeleteDoc(i, d)

LoadingNext ==
    \/ \E i \in Slots : Settle(i) \/ Continue(i) \/ Operate(i)
    \/ \E f \in Files : HandleFileSelect(f)
    \/ HandleInterpret
    \/ SrvInterpret
    \/ SrvInterpretFail
    \/ HandleInterpretResume

\* every request settles, and a handler whose await has settled runs on
LoadingFair ==
    /\ \A i \in Slots : WF_vars(Settle(i)) /\ WF_vars(Continue(i))
    /\ WF_vars(SrvInterpret \/ SrvInterpretFail)
    /\ WF_vars(HandleInterpretResume)

LoadingSpec == LoadingInit /\ [][LoadingNext]_vars /\ LoadingFair

\* ---------------------------------------------------------------- claims
\* the step in which task i runs on from an await
Resumes(i) == tasks[i].pc \in {"resp1", "resp2"} /\ tasks'[i].pc # tasks[i].pc

\* the step in which a question is submitted and handleAsk starts in slot i
Submits(i) == IsFree(i) /\ tasks'[i].kind = "handleAsk"

\* what the awaiting handler sees of the response it got
Settled(t) ==
    IF "kind" \in DOMAIN t /\ t.kind = "handleExportSession"
    THEN ExportResponse(t.resp)
    ELSE HandleResponse(t.resp)

\* C1: every ask request that carries a session_id names a session whose
\* doc_id is the doc_id sent in the same request
C1_AskSessionOfSameDoc ==
    \A i \in Slots :
        Calls(i, "askQuestion") /\ tasks[i].sid # NoId => sessDoc[tasks[i].sid] = tasks[i].doc

\* C2: when the ask request of handleAsk fails, error is set and the displayed
\* messages are again the list as it was before the question was submitted
C2_FailedAskRestoresMessages ==
    [][\A i \in Slots :
          Awaits(i, "handleAsk", "resp2") /\ Resumes(i) /\ Settled(tasks[i]).throws
              => error' # NoError /\ messages' = tasks[i].before]_vars

\* C3: with no request pending and a current session (one the server still
\* holds), the displayed messages are the messages the server holds for it
C3_DisplayedIsServerSession ==
    /\ \A i \in Slots : IsFree(i)
    /\ currentSessionId # NoId
    /\ SessionExists(currentSessionId)
    => messages = srvMsgs[currentSessionId]

\* C4: every assistant message on display is immediately preceded by the user
\* message carrying the question it answers
C4_AnswerFollowsItsQuestion ==
    \A k \in 1..Len(messages) :
        messages[k].role = "assistant"
            => k > 1 /\ messages[k - 1] = UserMsg(messages[k].content)

\* C5: on a 204 response without body deleteDocument / deleteSession resolve:
\* the document / session leaves the page's list and no error is set
C5_NoContentDeleteResolves ==
    [][\A i \in Slots :
          /\ tasks[i].kind \in {"handleDeleteDoc", "handleDeleteSession"}
          /\ Resumes(i)
          /\ tasks[i].resp.status = 204
          => /\ error' = error
             /\ tasks[i].kind = "handleDeleteDoc" => ~Contains(documents', tasks[i].doc)
             /\ tasks[i].kind = "handleDeleteSession" => ~Contains(sessions', tasks[i].sid)]_vars

\* C6: with no current session handleAsk issues createSession for the selected
\* document and sends the ask only after it settled; on success the ask carries
\* the new id, which becomes current and is prepended to sessions; on failure
\* the ask goes out without session_id and currentSessionId stays as it is
C6_AutoCreateThenAsk ==
    [][\A i \in Slots :
          /\ Submits(i) /\ currentSessionId = NoId
                => Calls(i, "createSession")' /\ tasks'[i].doc = selectedDoc
          /\ ~Calls(i, "askQuestion") /\ Calls(i, "askQuestion")' /\ tasks'[i].cur = NoId
                => Awaits(i, "handleAsk", "resp1")
          /\ Awaits(i, "handleAsk", "resp1") /\ Resumes(i)
                => /\ Calls(i, "askQuestion")'
                   /\ tasks'[i].doc = tasks[i].doc
                   /\ IF Settled(tasks[i]).throws
                      THEN /\ tasks'[i].sid = NoId
                           /\ currentSessionId' = currentSessionId
                           /\ sessions' = sessions
                      ELSE /\ tasks'[i].sid = tasks[i].resp.data[1]
                           /\ currentSessionId' = tasks[i].resp.data[1]
                           /\ sessions' = <<tasks[i].resp.data[1]>> \o sessions]_vars

\* an ask on the wire carries the session its handleAsk created, now current
\* and in front of the sessions that were listed before
C6_Witness ==
    \E i \in Slots :
        /\ Calls(i, "askQuestion")
        /\ tasks[i].cur = NoId
        /\ tasks[i].sid # NoId
        /\ currentSessionId = tasks[i].sid
        /\ Len(sessions) > 1
        /\ sessions[1] = tasks[i].sid

C8_AutoResumeFirst ==
    [][\A i \in Slots :
          /\ Awaits(i, "fetchSessions", "resp1") /\ Resumes(i)
             /\ ~Settled(tasks[i]).throws /\ Len(tasks[i].resp.data) > 0
                => /\ Calls(i, "getSession")'
                   /\ tasks'[i].sid = tasks[i].resp.data[1]
                   /\ tasks'[i].docSessions = tasks[i].resp.data
                   /\ sessions' = tasks[i].resp.data
          /\ Awaits(i, "fetchSessions", "resp2")
                => tasks[i].sid = tasks[i].docSessions[1]
          /\ Awaits(i, "fetchSessions", "resp2") /\ Resumes(i) /\ ~Settled(tasks[i]).throws
                => /\ currentSessionId' = tasks[i].docSessions[1]
                   /\ messages' = tasks[i].resp.data]_vars

\* document 1 was selected and its most recent session, 2, is resumed
C8_Witness ==
    /\ ops = 1
    /\ \A i \in Slots : IsFree(i)
    /\ selectedDoc = 1
    /\ sessions = <<2, 1>>
    /\ currentSessionId = 2
    /\ messages = <<UserMsg(-1), AssistantMsg(-1)>>

\* position of a session in the server's list, most recently updated first
Rank(s) == CHOOSE k \in 1..Len(srvOrder) : srvOrder[k] = s

\* C9: the page's sessions list is sorted by the server's current updated_at,
\* most recent first; checked where the claim points: no request is pending,
\* no call has failed, and an ask has gone out in the current session with no
\* session switch since
C9_SessionsMostRecentFirst ==
    /\ \A i \in Slots : IsFree(i)
    /\ lastAsk.sid # NoId
    /\ error = NoError
    => \A a, b \in 1..Len(sessions) :
          a < b /\ SessionExists(sessions[a]) /\ SessionExists(sessions[b])
              => Rank(sessions[a]) <= Rank(sessions[b])

\* C10: every failed API call of the page (all but the upload, whose failure
\* FileUpload shows) leaves error set
C10_FailuresSetError ==
    [][\A i \in Slots :
          Resumes(i) /\ tasks[i].kind # "handleUpload" /\ Settled(tasks[i]).throws
              => error' # NoError]_vars

\* C11: a rejected upload leaves documents, selectedDoc, messages, sessions and
\* currentSessionId as they were, from the click on Upload on; FileUpload shows
\* the error's message, keeps its file, and isUploading is false again
C11_RejectedUploadLeavesPage ==
    [][\A i \in Slots :
          /\ IsFree(i) /\ tasks'[i].kind = "handleUpload"
                => /\ isUploading'
                   /\ <<documents, selectedDoc, messages, sessions, currentSessionId>>'
                         = <<documents, selectedDoc, messages, sessions, currentSessionId>>
          /\ Awaits(i, "handleUpload", "resp1") /\ Resumes(i) /\ Settled(tasks[i]).throws
                => /\ <<documents, selectedDoc, messages, sessions, currentSessionId>>'
                         = <<documents, selectedDoc, messages, sessions, currentSessionId>>
                   /\ uploadError' = Settled(tasks[i]).message
                   /\ file' = file
                   /\ ~isUploading']_vars

\* document 1 and its session 2 are on display, the dropped setup.exe was
\* refused with 400 and is still the chosen file
C11_Witness ==
    /\ \A i \in Slots : IsFree(i)
    /\ selectedDoc = 1
    /\ currentSessionId = 2
    /\ messages = srvMsgs[2]
    /\ file.ext = ".exe"
    /\ uploadError = Unsupported.detail
    /\ ~isUploading

\* C12: handleDeleteDoc for document d, the selection being what it was at the
\* click: when deleteDocument resolved, d is off the documents list and, if d
\* was selected, selectedDoc, messages, sessions and currentSessionId are
\* cleared, else unchanged; when it rejected, the list and the selection are
\* unchanged and error is set
C12_DeleteDocEffect ==
    [][\A i \in Slots :
          Awaits(i, "handleDeleteDoc", "resp1") /\ Resumes(i) /\ tasks[i].sel = selectedDoc
              => IF Settled(tasks[i]).throws
                 THEN /\ documents' = documents
                      /\ selectedDoc' = selectedDoc
                      /\ error' = Settled(tasks[i]).message
                      /\ error' # NoError
                 ELSE /\ ~Contains(documents', tasks[i].doc)
                      /\ \A d \in 1..MaxDocs :
                            d # tasks[i].doc => (Contains(documents', d) <=> Contains(documents, d))
                      /\ IF selectedDoc = tasks[i].doc
                         THEN /\ selectedDoc' = NoId
                              /\ messages' = <<>>
                              /\ sessions' = <<>>
                              /\ currentSessionId' = NoId
                         ELSE <<selectedDoc, messages, sessions, currentSessionId>>'
                                 = <<selectedDoc, messages, sessions, currentSessionId>>]_vars

\* three clicks: select document 1, ask in its session 2, delete document 1.
\* A question was asked, so a document was selected; none is now, so the
\* selected one was deleted; the page lists document 2 alone and shows nothing
C12_Witness ==
    /\ ops = 3
    /\ askCount = 1
    /\ \A i \in Slots : IsFree(i)
    /\ 1 \notin srvDocs
    /\ documents = <<2>>
    /\ selectedDoc = NoId
    /\ messages = <<>>
    /\ sessions = <<>>
    /\ currentSessionId = NoId
    /\ error = NoError

\* C13: selectedDoc is null or a member of the documents list
C13_SelectedIsListed ==
    selectedDoc = NoId \/ Contains(documents, selectedDoc)

\* C14: no two entries of the documents list have the same id
C14_NoDuplicateDocuments ==
    \A a, b \in 1..Len(documents) : a # b => documents[a] # documents[b]

\* a step only the Clear button takes: a displayed interpretation or error
\* goes away with no request starting, or both textareas are emptied at once
ClearStep ==
    \/ interpretation # Null /\ interpretation' = Null
    \/ interpretError # NoError /\ interpretError' = NoError /\ ~interpretIsLoading'
    \/ input # <<>> /\ context # <<>> /\ input' = <<>> /\ context' = <<>>

\* C15: every interpret request carries one of the five tones and one of the
\* four styles; tone and style are insightful and concise at page load and
\* after Clear; the ToneSelector offers exactly these five and four
C15_TonesAndStyles ==
    /\ tone = "insightful" /\ style = "concise"
    /\ [](/\ TONES = {"insightful", "supportive", "analytical", "creative", "direct"}
          /\ STYLES = {"concise", "detailed", "bullet_points", "narrative"}
          /\ interpretTask.pc # "none"
                => /\ interpretTask.request.tone
                         \in {"insightful", "supportive", "analytical", "creative", "direct"}
                   /\ interpretTask.request.style
                         \in {"concise", "detailed", "bullet_points", "narrative"})
    /\ [][ClearStep => tone' = "insightful" /\ style' = "concise"]_vars

\* a request is on the wire with the last tone and the last style of the rows
C15_Witness ==
    /\ interpretTask.pc = "req"
    /\ interpretTask.request.tone = "direct"
    /\ interpretTask.request.style = "narrative"

\* C16: handleInterpret sends nothing for a blank input, else one request with
\* the trimmed input and the trimmed context, null when blank; when the call
\* resolved the interpretation is the response's text and error is null, when
\* it rejected error is set and the interpretation is as before; isLoading is
\* false afterwards
C16_InterpretOutcome ==
    [][/\ interpretTask.pc = "none" /\ Trim(input) = <<>> => interpretTask'.pc = "none"
       /\ interpretTask.pc = "none" /\ interpretTask'.pc # "none"
             => /\ interpretTask'.pc = "req"
                /\ interpretTask'.request.input = Trim(input)
                /\ interpretTask'.request.context
                      = (IF Trim(context) = <<>> THEN Null ELSE Some(Trim(context)))
       /\ interpretTask.pc = "req" /\ interpretTask' # interpretTask
             => /\ interpretTask'.pc = "resp"
                /\ interpretTask'.request = interpretTask.request
       /\ interpretTask.pc = "resp" /\ interpretTask' # interpretTask
             => /\ interpretTask' = NoInterpret
                /\ ~interpretIsLoading'
                /\ IF Settled(interpretTask).throws
                   THEN /\ interpretError' # NoError
                        /\ interpretation' = interpretation
                   ELSE /\ interpretation' = Some(interpretTask.resp.data.interpretation)
                        /\ interpretError' = NoError]_vars

\* " a " was interpreted as "aa"; a later request failed: its error is shown
\* and the interpretation is still on display
C16_Witness ==
    /\ input = <<" ", "a", " ">>
    /\ interpretation = Some(<<"a", "a">>)
    /\ interpretError = ServerError.detail
    /\ ~interpretIsLoading
    /\ interpretTask = NoInterpret

\* C17: a response with a non-2xx status makes handleResponse reject with an
\* ApiError carrying the status and, as message, the body's detail, 'Request
\* failed' for a missing or empty detail, 'Unknown error' for a body that is
\* not JSON
C17_NonOkRejects ==
    settled # Pending /\ response.status \notin 200..299
        => /\ settled.throws
           /\ settled.name = "ApiError"
           /\ settled.status = response.status
           /\ settled.message = IF response.body # "json" THEN "Unknown error"
                                ELSE IF response.detail \in {"", Undefined} THEN "Request failed"
                                ELSE response.detail

\* a 429 with a body that is not JSON was turned into ApiError(429, 'Unknown error')
C17_Witness ==
    /\ response.status = 429
    /\ response.body = "text"
    /\ settled = ApiError(429, "Unknown error")

\* C18: handleExportSession issues one export request, for md or pdf, and
\* neither the click nor the continuation changes sessions, currentSessionId,
\* messages, documents or selectedDoc; a failure sets error to the message,
\* 'Export failed' when the error body is JSON without detail
C18_ExportLeavesPage ==
    [][\A i \in Slots :
          /\ IsFree(i) /\ tasks'[i].kind = "handleExportSession"
                => /\ Calls(i, "exportSession")'
                   /\ tasks'[i].fmt \in {"md", "pdf"}
                   /\ <<sessions, currentSessionId, messages, documents, selectedDoc>>'
                         = <<sessions, currentSessionId, messages, documents, selectedDoc>>
          /\ tasks[i].kind = "handleExportSession" /\ tasks'[i] # tasks[i]
                => \/ Calls(i, "exportSession") /\ Awaits(i, "handleExportSession", "resp1")'
                   \/ Awaits(i, "handleExportSession", "resp1") /\ IsFree(i)'
          /\ Awaits(i, "handleExportSession", "resp1") /\ Resumes(i)
                => /\ <<sessions, currentSessionId, messages, documents, selectedDoc>>'
                         = <<sessions, currentSessionId, messages, documents, selectedDoc>>
                   /\ ~tasks[i].resp.ok => error' = Settled(tasks[i]).message
                   /\ (/\ ~tasks[i].resp.ok
                       /\ tasks[i].resp.body = "json"
                       /\ tasks[i].resp.detail \in {"", Undefined})
                         => error' = "Export failed"
                   /\ tasks[i].resp.ok => error' = error]_vars

\* the export of a session of document 1 was answered 502 without detail
C18_Witness ==
    /\ \A i \in Slots : IsFree(i)
    /\ selectedDoc = 1
    /\ sessions = <<2, 1>>
    /\ currentSessionId = 2
    /\ messages = srvMsgs[2]
    /\ error = "Export failed"

\* C19: every file FileUpload passes to onUpload has extension .pdf, .txt or .md
C19_UploadsSupportedOnly ==
    \A i \in Slots :
        Calls(i, "uploadDocument") => tasks[i].file.ext \in {".pdf", ".txt", ".md"}

\* C20: when the fetchSessions call for the selected document completes, with
\* nothing else pending, the displayed messages are those it loaded from the
\* first session of the list, or none when the list is empty or a call failed
C20_MessagesOfSelectedDoc ==
    [][\A i \in Slots :
          /\ tasks[i].kind = "fetchSessions" /\ Resumes(i) /\ IsFree(i)'
          /\ tasks[i].doc = selectedDoc
          /\ \A j \in Slots : j # i => IsFree(j)
          => messages' = IF tasks[i].pc = "resp2" /\ ~Settled(tasks[i]).throws
                         THEN tasks[i].resp.data
                         ELSE <<>>]_vars

\* C21: currentSessionId is null or the id of a session in the page's sessions
\* list; stated for the states in which no request is pending, where no
\* handler is halfway through its updates
C21_CurrentSessionIsListed ==
    (\A i \in Slots : IsFree(i))
        => currentSessionId = NoId \/ Contains(sessions, currentSessionId)

\* C22: after documents were selected in quick succession, once no request is
\* pending every session of the sessions list has the selected document's id
\* as its doc_id
C22_SessionsOfSelectedDoc ==
    (selectedDoc # NoId /\ \A i \in Slots : IsFree(i))
        => \A k \in 1..Len(sessions) : sessDoc[sessions[k]] = selectedDoc

C24_CreateSessionEffect ==
    /\ [](\A i \in Slots : tasks[i].kind = "handleCreateSession" => tasks[i].doc # NoId)
    /\ [][\A i \in Slots :
             /\ IsFree(i) /\ tasks'[i].kind = "handleCreateSession"
                   => /\ selectedDoc # NoId
                      /\ tasks'[i].doc = selectedDoc
                      /\ UNCHANGED pageVars
             /\ Awaits(i, "handleCreateSession", "resp1") /\ Resumes(i)
                   => IF Settled(tasks[i]).throws
                      THEN /\ <<sessions, currentSessionId, messages>>'
                                 = <<sessions, currentSessionId, messages>>
                           /\ error' = Settled(tasks[i]).message
                           /\ error' # NoError
                      ELSE /\ Len(sessions') = Len(sessions) + 1
                           /\ sessions'[1] = tasks[i].resp.data[1]
                           /\ \A k \in 1..Len(sessions) : sessions'[k + 1] = sessions[k]
                           /\ currentSessionId' = tasks[i].resp.data[1]
                           /\ sessDoc[currentSessionId'] = tasks[i].doc
                           /\ messages' = <<>>]_vars

\* two clicks: select document 1, then New Session once session 2 is shown;
\* the created session 3 is first, current and empty
C24_Witness ==
    /\ ops = 2
    /\ \A i \in Slots : IsFree(i)
    /\ selectedDoc = 1
    /\ sessions = <<3, 2, 1>>
    /\ currentSessionId = 3
    /\ sessDoc[3] = 1
    /\ messages = <<>>
    /\ error = NoError

\* C25: handleDeleteSession for session s, the current session being what it
\* was at the click: when deleteSession resolved, s is off the sessions list
\* and the other sessions keep their order, and if s was current then
\* currentSessionId is null and no messages are displayed, else both are
\* unchanged; when it rejected, sessions, currentSessionId and messages are
\* unchanged and error is set
C25_DeleteSessionEffect ==
    [][\A i \in Slots :
          Awaits(i, "handleDeleteSession", "resp1") /\ Resumes(i)
          /\ tasks[i].cur = currentSessionId
              => IF Settled(tasks[i]).throws
                 THEN /\ <<sessions, currentSessionId, messages>>'
                            = <<sessions, currentSessionId, messages>>
                      /\ error' = Settled(tasks[i]).message
                      /\ error' # NoError
                 ELSE /\ sessions' = SelectSeq(sessions, LAMBDA s : s # tasks[i].sid)
                      /\ IF currentSessionId = tasks[i].sid
                         THEN currentSessionId' = NoId /\ messages' = <<>>
                         ELSE <<currentSessionId, messages>>' = <<currentSessionId, messages>>]_vars

\* two clicks: select document 1, then delete its session 2 while it is on
\* display; session 1 remains listed and nothing is current
C25_Witness ==
    /\ ops = 2
    /\ \A i \in Slots : IsFree(i)
    /\ ~SessionExists(2)
    /\ selectedDoc = 1
    /\ sessions = <<1>>
    /\ currentSessionId = NoId
    /\ messages = <<>>
    /\ error = NoError

\* C26: when uploadDocument resolved, the documents list is the earlier list
\* with the new document appended, whose id, filename and chunks are the
\* response's doc_id, filename and chunks_created; the new document is
\* selected, and messages, sessions and currentSessionId are cleared
C26_UploadEffect ==
    [][\A i \in Slots :
          Awaits(i, "handleUpload", "resp1") /\ Resumes(i) /\ ~Settled(tasks[i]).throws
              => LET body == tasks[i].resp.data IN
                 /\ Len(documents') = Len(documents) + 1
                 /\ \A k \in 1..Len(documents) : documents'[k] = documents[k]
                 /\ documents'[Len(documents')] = body.doc_id
                 /\ docInfo'[body.doc_id].filename = body.filename
                 /\ docInfo'[body.doc_id].chunks = body.chunks_created
                 /\ \A d \in 1..MaxDocs : d # body.doc_id => docInfo'[d] = docInfo[d]
                 /\ selectedDoc' = body.doc_id
                 /\ messages' = <<>>
                 /\ sessions' = <<>>
                 /\ currentSessionId' = NoId]_vars

\* two clicks once the list has loaded: choose notes.pdf, Upload Document.
\* The server made two chunks of it; document 3 is listed last and selected,
\* with the file's name and two chunks
C26_Witness ==
    /\ ops = 2
    /\ \A i \in Slots : IsFree(i)
    /\ srvInfo[3].chunks = 2
    /\ documents = <<1, 2, 3>>
    /\ docInfo[3] = [filename |-> [stem |-> "notes", ext |-> ".pdf"], chunks |-> 2]
    /\ selectedDoc = 3
    /\ file = NoFile
    /\ messages = <<>>
    /\ sessions = <<>>
    /\ currentSessionId = NoId

\* C28: the title of a session auto-created by handleAsk is the question when
\* the question has at most 50 characters, else its first 50 characters
\* followed by '...'; it is never longer than 53 characters and never empty
C28_TitleOfQuestion ==
    title.null = question.null
    /\ (~title.null =>
          LET q == question.text
              t == title.text
          IN /\ Len(q) <= 50 => t = q
             /\ Len(q) > 50 => t = SubSeq(q, 1, 50) \o <<".", ".", ".">>
             /\ Len(t) <= 53
             /\ t # <<>>)

\* a question of 51 letters, typed with a blank on either side, was cut to its
\* first 50 and three dots
C28_Witness ==
    /\ ~question.null
    /\ Len(question.text) = 51
    /\ Len(title.text) = 53
    /\ title.text[50] = "a"
    /\ title.text[51] = "."

\* C29: the error cell is left as it is by every ask, session load, session
\* creation, session deletion, export and document deletion whose request
\* succeeded, and by every change of the selected document; it goes back to
\* null only in the step that starts an upload
C29_ErrorKept ==
    [][/\ \A i \in Slots :
             (/\ Resumes(i)
              /\ tasks[i].kind \in {"handleAsk", "loadSession", "handleCreateSession",
                                    "handleDeleteSession", "handleExportSession",
                                    "handleDeleteDoc"}
              /\ ~Settled(tasks[i]).throws)
                 => error' = error
       /\ selectedDoc' # selectedDoc => error' = error
       /\ (error # NoError /\ error' = NoError)
             => \E i \in Slots : IsFree(i) /\ tasks'[i].kind = "handleUpload"]_vars

\* three operations: select document 1, ask a question that fails, ask a
\* second one that is answered; the first question's error is still there
C29_Witness ==
    /\ ops = 3
    /\ askCount = 2
    /\ \A i \in Slots : IsFree(i)
    /\ selectedDoc = 1
    /\ messages = <<UserMsg(-1), AssistantMsg(-1), UserMsg(1), UserMsg(2), AssistantMsg(2)>>
    /\ error # NoError

\* C27: every loading flag that is raised is lowered again once the request
\* of its operation has settled, so each flag is down again and again: the
\* documents page's isLoading and isLoadingSessions, ChatInput's isLoading,
\* FileUpload's isUploading and the interpret page's isLoading
C27_FlagsLowered ==
    /\ []<>~isLoading
    /\ []<>~isLoadingSessions
    /\ []<>~chatIsLoading
    /\ []<>~isUploading
    /\ []<>~interpretIsLoading

\* the page has loaded its list, document 1 was selected and a question
\* asked, and an upload was rejected: every flag was up and is down again
C27_Witness ==
    /\ ops = MaxOps
    /\ \A i \in Slots : IsFree(i)
    /\ documents # <<>>
    /\ selectedDoc = 1
    /\ askCount = 1
    /\ uploadError # NoError
    /\ ~isLoading
    /\ ~isLoadingSessions
    /\ ~chatIsLoading
    /\ ~isUploading

====
